---- MODULE Spec2Model ----
(***************************************************************************)
(* Authentication and authorisation core of the WrestlePro backend         *)
(* (src/main.py, src/schemas.py): signup, login, me, the token resolver    *)
(* get_current_user, the role gate require_roles and the gated route       *)
(* create_event, over the "authuser" and "event" collections.              *)
(*                                                                         *)
(* Time is counted in whole seconds, as the "exp" claim of a token is.     *)
(* Python's None for an optional string is the string None below; an       *)
(* absent object (no document, no token) is the record Null.               *)
(***************************************************************************)
EXTENDS Integers, Sequences, FiniteSets, TLC

VARIABLES
    users,      \* the "authuser" collection, documents in insertion order
    events,     \* the "event" collection, documents in insertion order
    inflight,   \* signup requests that passed the existence check, not yet inserted
    held,       \* the token the client holds (issued by signup or login), or Null
    now,        \* the clock, seconds
    resp        \* the last response sent (NoResponse after a step that sends none)

vars == <<users, events, inflight, held, now, resp>>

None == "None"
Null == [null |-> TRUE]

(***************************** bounds ***************************************)
MaxUsers == 2
MaxEvents == 1

(************************ configuration *************************************)
JWT_SECRET == "dev-secret-change-me"
JWT_ALGORITHM == "HS256"
JWT_EXPIRES_MIN == 1440

TTL == JWT_EXPIRES_MIN * 60

\* The instants the clock visits: issuance at 0, the expiry second of a token
\* issued at 0, and the second after it.
Instants == {0, TTL, TTL + 1}

Roles == {"organizer", "coach", "athlete", "admin"}

(************************** request inputs **********************************)
Emails == {"alice@x.com", "bob@x.com"}
Passwords == {"secret123", "hunter2"}
Salts == {"salt1"}

SignupRequests ==
    { [name |-> "Alice", email |-> "alice@x.com", password |-> "secret123", role |-> None],
      [name |-> None,    email |-> "alice@x.com", password |-> "hunter2",   role |-> "organizer"],
      [name |-> "Bob",   email |-> "bob@x.com",   password |-> "secret123", role |-> ""],
      [name |-> None,    email |-> "bob@x.com",   password |-> "hunter2",   role |-> "superuser"] }

LoginRequests == [email : Emails, password : Passwords]

EventRequests == { [title |-> "Open", published |-> TRUE] }

(************************** dict helpers ************************************)
DictWithout(d, keys) == [k \in (DOMAIN d) \ keys |-> d[k]]

DictUpdate(d, key, val) == [k \in (DOMAIN d) \cup {key} |-> IF k = key THEN val ELSE d[k]]

ObjectId(n) == [oid |-> n]

str(oid) == ToString(oid.oid)

(************************** exceptions **************************************)
HTTPException(status_code, detail, headers) ==
    [status |-> status_code, detail |-> detail, headers |-> headers]

(************************ password hashing **********************************)
\* bcrypt: the hash string carries its salt; verification re-hashes the
\* plaintext with the embedded salt and compares.
Digest(salt, password) == <<"bcrypt", salt, password>>

get_password_hash(password, salt) == [salt |-> salt, digest |-> Digest(salt, password)]

verify_password(plain_password, hashed_password) ==
    hashed_password.digest = Digest(hashed_password.salt, plain_password)

(****************************** JWT *****************************************)
HMAC(key, claims) == <<JWT_ALGORITHM, key, claims>>

jwt_encode(claims, key) == [claims |-> claims, sig |-> HMAC(key, claims)]

JWTError == [JWTError |-> TRUE]

\* jwt_decode with the expiry check left out
jwt_decode_no_exp(token, key, t) ==
    IF "claims" \notin DOMAIN token THEN [JWTError |-> TRUE]
    ELSE IF token.sig # HMAC(key, token.claims) THEN [JWTError |-> TRUE]
    ELSE token.claims

\* python-jose: the signature is checked first, then the "exp" claim, which is
\* rejected when exp < now (a token is still accepted in its expiry second).
jwt_decode(token, key, t) ==
    IF "claims" \notin DOMAIN token THEN JWTError
    ELSE IF token.sig # HMAC(key, token.claims) THEN JWTError
    ELSE IF token.claims.exp < t THEN JWTError
    ELSE token.claims

create_access_token(data, t) ==
    jwt_encode(DictUpdate(data, "exp", t + TTL), JWT_SECRET)

(*************************** the store **************************************)
Min(S) == CHOOSE x \in S : \A y \in S : x <= y

\* find_one: the first document with the email, or none
get_user_by_email(email, store) ==
    LET idx == {i \in 1..Len(store) : store[i].email = email}
    IN  IF idx = {} THEN Null ELSE store[Min(idx)]

\* insert_one: the document gets a generated _id and goes last
create_document(collection, doc) ==
    Append(collection, DictUpdate(doc, "_id", ObjectId(Len(collection) + 1)))

(*********************** token resolution ***********************************)
credentials_exception ==
    HTTPException(401, "Could not validate credentials", "WWW-Authenticate: Bearer")

Resolved(user) == [error |-> Null, user |-> user]

Raised(exc) == [error |-> exc, user |-> Null]

\* get_current_user answering 404 for a subject with no document
get_current_user_404(token, store, t) ==
    LET payload == jwt_decode(token, JWT_SECRET, t)
    IN  IF payload = JWTError THEN Raised(credentials_exception)
        ELSE IF "sub" \notin DOMAIN payload THEN Raised(credentials_exception)
        ELSE LET user == get_user_by_email(payload.sub, store)
             IN  IF user = Null THEN Raised(HTTPException(404, "User not found", None))
                 ELSE IF ~user.is_active
                      THEN Raised(HTTPException(403, "User is inactive", None))
                 ELSE Resolved(DictUpdate(user, "_id", str(user._id)))

get_current_user(token, store, t) ==
    LET payload == jwt_decode(token, JWT_SECRET, t)
    IN  IF payload = JWTError THEN Raised(credentials_exception)
        ELSE IF "sub" \notin DOMAIN payload THEN Raised(credentials_exception)
        ELSE LET user == get_user_by_email(payload.sub, store)
             IN  IF user = Null THEN Raised(credentials_exception)
                 ELSE IF ~user.is_active
                      THEN Raised(HTTPException(403, "User is inactive", None))
                 ELSE Resolved(DictUpdate(user, "_id", str(user._id)))

\* require_roles without the membership test
require_roles_any(allowed_roles, token, store, t) ==
    get_current_user(token, store, t)

require_roles(allowed_roles, token, store, t) ==
    LET r == get_current_user(token, store, t)
    IN  IF r.error # Null THEN r
        ELSE IF r.user.role \notin allowed_roles
             THEN Raised(HTTPException(403, "Insufficient permissions", None))
        ELSE r

(***************************** responses ************************************)
Response(op, req, status, detail, headers, token, user) ==
    [op |-> op, req |-> req, status |-> status, detail |-> detail,
     headers |-> headers, token |-> token, user |-> user]

Failure(op, req, exc) ==
    Response(op, req, exc.status, exc.detail, exc.headers, Null, Null)

NoResponse == Response("none", Null, 0, None, None, Null, Null)

(****************************** signup **************************************)
\* signup without the existence check
signup_check_skipped(payload, store) == Null

\* lines 162-164: the existence check
signup_check(payload, store) ==
    IF get_user_by_email(payload.email, store) # Null
    THEN HTTPException(400, "Email already registered", None)
    ELSE Null

\* lines 166-173: the AuthUser built from the request
signup_user_model(payload, salt) ==
    [name |-> payload.name,
     email |-> payload.email,
     role |-> IF payload.role \in {None, ""} THEN "athlete" ELSE payload.role,
     hashed_password |-> get_password_hash(payload.password, salt),
     is_active |-> TRUE]

\* lines 175-179: the token and the user of the response
signup_response(payload, user_model, user_id, t) ==
    Response("signup", payload, 200, None, None,
             create_access_token([sub |-> payload.email, role |-> user_model.role], t),
             DictWithout(DictUpdate(user_model, "_id", user_id), {"hashed_password"}))

(******************************* login **************************************)
\* login naming the credential that was wrong
login_telling(payload, store, t) ==
    LET user == get_user_by_email(payload.email, store)
    IN  IF user = Null
        THEN Failure("login", payload, HTTPException(404, "No such user", None))
        ELSE IF ~verify_password(payload.password, user.hashed_password)
        THEN Failure("login", payload, HTTPException(400, "Invalid email or password", None))
        ELSE Response("login", payload, 200, None, None,
                      create_access_token([sub |-> user.email, role |-> user.role], t),
                      DictUpdate(DictWithout(user, {"hashed_password"}), "_id", str(user._id)))

login(payload, store, t) ==
    LET user == get_user_by_email(payload.email, store)
    IN  IF user = Null
        THEN Failure("login", payload, HTTPException(400, "Invalid email or password", None))
        ELSE IF ~verify_password(payload.password, user.hashed_password)
        THEN Failure("login", payload, HTTPException(400, "Invalid email or password", None))
        ELSE Response("login", payload, 200, None, None,
                      create_access_token([sub |-> user.email, role |-> user.role], t),
                      DictUpdate(DictWithout(user, {"hashed_password"}), "_id", str(user._id)))

(******************************** me ****************************************)
me(token, store, t) ==
    LET r == get_current_user(token, store, t)
    IN  IF r.error # Null THEN Failure("me", token, r.error)
        ELSE Response("me", token, 200, None, None, Null, r.user)

(**************************** create_event **********************************)
create_event_guard(token, store, t) ==
    require_roles({"organizer", "admin"}, token, store, t)

(***************************** the clients **********************************)
\* What a client can put in the Authorization header: the token it holds, that
\* token with its claims changed and the signature kept, a token signed with
\* another key, a string that is no JWT at all, or a token this service issued
\* at time 0 to an account whose document is no longer in the store (documents
\* are removed only by administration outside this code).
Tampered(tok) == [tok EXCEPT !.claims.role = "admin", !.claims.exp = @ + TTL]

Forged == jwt_encode([sub |-> "alice@x.com", role |-> "admin", exp |-> 3 * TTL], "guessed-secret")

Malformed == [garbage |-> TRUE]

Orphan == create_access_token([sub |-> "carol@x.com", role |-> "athlete"], 0)

Presentable ==
    (IF held = Null THEN {} ELSE {held, Tampered(held)}) \cup {Forged, Malformed, Orphan}

\* a client that is issued a token keeps it, or keeps the one it had
Keep(token) == held' \in {held, token}

(******************************* actions ************************************)
Init ==
    /\ users = <<>>
    /\ events = <<>>
    /\ inflight = {}
    /\ held = Null
    /\ now = 0
    /\ resp = NoResponse

\* POST /api/auth/signup, up to the existence check. A request that passes
\* the check stays in flight until its insert; the requests in flight at one
\* time carry different payloads.
SignupLookup(payload) ==
    LET exc == signup_check(payload, users)
    IN  IF exc # Null
        THEN /\ resp' = Failure("signup", payload, exc)
             /\ UNCHANGED <<users, events, inflight, held, now>>
        ELSE /\ Len(users) + Cardinality(inflight) < MaxUsers
             /\ payload \notin inflight
             /\ inflight' = inflight \cup {payload}
             /\ resp' = NoResponse
             /\ UNCHANGED <<users, events, held, now>>

\* POST /api/auth/signup, from the hashing to the response
SignupInsert(payload, salt) ==
    /\ payload \in inflight
    /\ LET user_model == signup_user_model(payload, salt)
           store == create_document(users, user_model)
           user_id == str(store[Len(store)]._id)
           r == signup_response(payload, user_model, user_id, now)
       IN  /\ users' = store
           /\ resp' = r
           /\ Keep(r.token)
    /\ inflight' = inflight \ {payload}
    /\ UNCHANGED <<events, now>>

\* POST /api/auth/login
Login(payload) ==
    LET r == login(payload, users, now)
    IN  /\ resp' = r
        /\ IF r.status = 200 THEN Keep(r.token) ELSE held' = held
        /\ UNCHANGED <<users, events, inflight, now>>

\* GET /api/auth/me
Me(token) ==
    /\ resp' = me(token, users, now)
    /\ UNCHANGED <<users, events, inflight, held, now>>

\* POST /api/events
CreateEvent(event, token) ==
    LET r == create_event_guard(token, users, now)
    IN  IF r.error # Null
        THEN /\ resp' = Failure("create_event", token, r.error)
             /\ UNCHANGED <<users, events, inflight, held, now>>
        ELSE /\ Len(events) < MaxEvents
             /\ events' = create_document(events, event)
             /\ resp' = Response("create_event", token, 200, None, None, Null, Null)
             /\ UNCHANGED <<users, inflight, held, now>>

\* the client discards its token
Forget ==
    /\ held # Null
    /\ held' = Null
    /\ resp' = NoResponse
    /\ UNCHANGED <<users, events, inflight, now>>

\* time passes
Tick ==
    /\ {t \in Instants : t > now} # {}
    /\ now' = Min({t \in Instants : t > now})
    /\ resp' = NoResponse
    /\ UNCHANGED <<users, events, inflight, held>>

\* the out-of-scope administration: the account with the email (the document
\* find_one returns) is deactivated or reactivated
SetActive(email, flag) ==
    LET idx == {i \in 1..Len(users) : users[i].email = email}
    IN  /\ idx # {}
        /\ users[Min(idx)].is_active # flag
        /\ users' = [users EXCEPT ![Min(idx)].is_active = flag]
        /\ resp' = NoResponse
        /\ UNCHANGED <<events, inflight, held, now>>

Deactivate(email) == SetActive(email, FALSE)

Reactivate(email) == SetActive(email, TRUE)

Next ==
    \/ \E payload \in SignupRequests : SignupLookup(payload)
    \/ \E payload \in SignupRequests, salt \in Salts : SignupInsert(payload, salt)
    \/ \E payload \in LoginRequests : Login(payload)
    \/ \E token \in Presentable : Me(token)
    \/ \E event \in EventRequests, token \in Presentable : CreateEvent(event, token)
    \/ Forget
    \/ Tick
    \/ \E email \in Emails : Deactivate(email)
    \/ \E email \in Emails : Reactivate(email)

Spec == Init /\ [][Next]_vars

(***************************************************************************)
(* What the properties below read off a state: the documents of an email,  *)
(* and the facts about a presented token stated without the resolver.      *)
(***************************************************************************)
Records(email, store) == {i \in 1..Len(store) : store[i].email = email}

IsJWT(tok) == "claims" \in DOMAIN tok

WellSigned(tok) == IsJWT(tok) /\ tok.sig = <<"HS256", JWT_SECRET, tok.claims>>

\* the document find_one returns for the token's subject
Account(tok, store) == store[Min(Records(tok.claims.sub, store))]

HasAccount(tok, store) == Records(tok.claims.sub, store) # {}

Issued == resp.op \in {"signup", "login"} /\ resp.status = 200

ResolvedOK == resp.op \in {"me", "create_event"} /\ resp.status = 200

Resolution == resp.op \in {"me", "create_event"}

(* C1: in every reachable state there is at most one user record per email, *)
(* whatever the interleaving of the signups' lookups and inserts.           *)
C1_OneRecordPerEmail ==
    \A i, j \in 1..Len(users) : users[i].email = users[j].email => i = j

(* C2: the user object of a successful signup, login or me response has no  *)
(* hashed_password field.                                                   *)
C2_NoHashInResponse ==
    (resp.op \in {"signup", "login", "me"} /\ resp.status = 200)
        => "hashed_password" \notin DOMAIN resp.user

(* C3 as stated: a resolution yields a user only if the token is signed     *)
(* with the secret, the current time is strictly before its expiry, and its *)
(* subject has a record that exists and is active at that moment.           *)
C3_ResolvesOnlyStrictlyBeforeExpiry ==
    ResolvedOK =>
        /\ WellSigned(resp.req)
        /\ now < resp.req.claims.exp
        /\ HasAccount(resp.req, users)
        /\ Account(resp.req, users).is_active

(* C3 as amended: the same, with the current second not after the expiry    *)
(* second (a token still resolves in the second its exp names, and never    *)
(* later); a deactivated or missing account never resolves.                 *)
C3_ResolvesOnlyUntilExpiry ==
    ResolvedOK =>
        /\ WellSigned(resp.req)
        /\ now <= resp.req.claims.exp
        /\ HasAccount(resp.req, users)
        /\ Account(resp.req, users).is_active

\* a token resolved in the very second of its expiry
C3_Witness ==
    /\ resp.op = "me" /\ resp.status = 200
    /\ now = resp.req.claims.exp
    /\ resp.user.email = resp.req.claims.sub

(* C4: a resolution of a malformed or badly signed token, of a token past   *)
(* its expiry, or of a token whose subject has no record fails with the one *)
(* 401 "Could not validate credentials" error (same status, message and     *)
(* header); a well-signed, unexpired token of an inactive account fails     *)
(* with 403 "User is inactive".                                             *)
C4_FailureKinds ==
    Resolution =>
        LET tok == resp.req
            shaped == ~WellSigned(tok) \/ tok.claims.exp < now \/ ~HasAccount(tok, users)
        IN  /\ shaped =>
                /\ resp.status = 401
                /\ resp.detail = "Could not validate credentials"
                /\ resp.headers = "WWW-Authenticate: Bearer"
                /\ resp.user = Null
            /\ (~shaped /\ ~Account(tok, users).is_active) =>
                /\ resp.status = 403
                /\ resp.detail = "User is inactive"
                /\ resp.user = Null

\* a well-signed, unexpired token whose subject has no record: 401
C4_Witness ==
    /\ resp.op = "me"
    /\ WellSigned(resp.req) /\ resp.req.claims.exp >= now
    /\ ~HasAccount(resp.req, users)
    /\ resp.status = 401

(* C5: the {organizer, admin} gate of create_event lets a request through   *)
(* only when its token resolves to an active account whose stored role is   *)
(* organizer or admin; a resolved account with another stored role gets 403 *)
(* "Insufficient permissions"; and an event document is inserted only by    *)
(* such an accepted request, whatever role the token carries.               *)
GateAllows(tok, store, t) ==
    /\ WellSigned(tok) /\ tok.claims.exp >= t
    /\ HasAccount(tok, store)
    /\ Account(tok, store).is_active
    /\ Account(tok, store).role \in {"organizer", "admin"}

GateResolves(tok, store, t) ==
    /\ WellSigned(tok) /\ tok.claims.exp >= t
    /\ HasAccount(tok, store)
    /\ Account(tok, store).is_active

C5_RoleGate ==
    [][ /\ events' # events =>
            /\ resp'.op = "create_event" /\ resp'.status = 200
            /\ GateAllows(resp'.req, users, now)
            /\ Len(events') = Len(events) + 1
        /\ (resp'.op = "create_event" /\ resp'.status = 200) =>
            GateAllows(resp'.req, users', now')
        /\ (resp'.op = "create_event" /\ GateResolves(resp'.req, users', now')
              /\ ~GateAllows(resp'.req, users', now')) =>
            /\ resp'.status = 403
            /\ resp'.detail = "Insufficient permissions"
            /\ events' = events
      ]_vars

\* a token carrying role organizer, rejected because the stored role is athlete
C5_Witness ==
    /\ resp.op = "create_event" /\ resp.status = 403
    /\ resp.detail = "Insufficient permissions"
    /\ resp.req.claims.role = "organizer"
    /\ Account(resp.req, users).role = "athlete"

(* C6: a signup whose email has a record in the store when the handler      *)
(* looks it up fails with 400 "Email already registered", issues no token,  *)
(* inserts nothing and leaves every record and the rest of the store as it  *)
(* was.                                                                     *)
C6_DuplicateSignupRejected ==
    [][ \A payload \in SignupRequests :
            (SignupLookup(payload) /\ Records(payload.email, users) # {}) =>
                /\ resp'.op = "signup" /\ resp'.req = payload
                /\ resp'.status = 400
                /\ resp'.detail = "Email already registered"
                /\ resp'.token = Null /\ resp'.user = Null
                /\ users' = users
                /\ events' = events
                /\ inflight' = inflight
                /\ held' = held
      ]_vars

\* a rejected signup whose role and password differ from the stored record's
C6_Witness ==
    /\ resp.op = "signup" /\ resp.status = 400
    /\ Records(resp.req.email, users) # {}
    /\ resp.req.role = "organizer"
    /\ users[Min(Records(resp.req.email, users))].role = "athlete"

(* C7: a login with an email that has no record and a login with a wrong    *)
(* password get the same response, 400 "Invalid email or password" with no  *)
(* token and no user, and change nothing in the store.                      *)
LoginFails(payload, store) ==
    \/ Records(payload.email, store) = {}
    \/ LET h == store[Min(Records(payload.email, store))].hashed_password
       IN  h.digest # <<"bcrypt", h.salt, payload.password>>

C7_LoginFailuresIdentical ==
    [][ (resp'.op = "login" /\ LoginFails(resp'.req, users)) =>
            /\ [resp' EXCEPT !.req = Null]
                 = [op |-> "login", req |-> Null, status |-> 400,
                    detail |-> "Invalid email or password", headers |-> None,
                    token |-> Null, user |-> Null]
            /\ users' = users
            /\ events' = events
            /\ inflight' = inflight
            /\ held' = held
      ]_vars

\* a failed login with an existing email and a wrong password
C7_Witness ==
    /\ resp.op = "login" /\ resp.status = 400
    /\ Records(resp.req.email, users) # {}
    /\ LoginFails(resp.req, users)

(* C8: while an account has is_active = false, no auth operation succeeds   *)
(* for it: login with its email does not return a token, and me and the     *)
(* role gate fail for tokens whose subject it is.                           *)
C8_InactiveBlocked ==
    /\ (resp.op = "login" /\ resp.status = 200) =>
           users[Min(Records(resp.req.email, users))].is_active
    /\ ResolvedOK => Account(resp.req, users).is_active

(* C9: every user record has a role in {organizer, coach, athlete, admin},  *)
(* and a signup whose role is absent or empty stores and embeds athlete.    *)
C9_RoleInFixedSet ==
    /\ \A i \in 1..Len(users) : users[i].role \in Roles
    /\ (resp.op = "signup" /\ resp.status = 200 /\ resp.req.role \in {None, ""}) =>
           /\ resp.user.role = "athlete"
           /\ resp.token.claims.role = "athlete"

(* C10: a token issued by a successful signup or login, resolved at once    *)
(* against the unchanged store, resolves to the user record whose email and *)
(* role are the subject and role in the token.                              *)
C10_IssueResolveRoundTrip ==
    Issued =>
        LET r == get_current_user(resp.token, users, now)
        IN  /\ r.error = Null
            /\ r.user.email = resp.token.claims.sub
            /\ r.user.role = resp.token.claims.role

====
